---- MODULE Spec2Model ----
(***************************************************************************)
(* A model of github-heartbeat-ecg: the ECG renderer of src/src/chart.js   *)
(* (interactive host, lines 1-693, and the Node export that shares its     *)
(* module state), the batch script of src/unnamed/part_003 and the message *)
(* dialog of src/src/msgBox.js.                                            *)
(*                                                                         *)
(* JavaScript numbers are modelled as exact rationals <<n, d>> (d > 0, in  *)
(* lowest terms); Math.random() is a choice from a small set of rationals  *)
(* in [0, 1).                                                              *)
(***************************************************************************)
EXTENDS Integers, Sequences, FiniteSets, TLC

VARIABLES
    env,            \* which host loaded the code: "browser", "node" or "script"
    canvas,         \* chart.js:29   the canvas element bound by initECG, or "none"
    client,         \* DOM:          <<clientWidth, clientHeight>> of the canvas element
    width,          \* chart.js:30
    height,         \* chart.js:30
    xTick,          \* chart.js:31
    scanOffset,     \* chart.js:25
    rafId,          \* chart.js:32   0 models null
    pointsPerUser,  \* chart.js:33   username -> sequence of samples
    datasets,       \* chart.js:34   sequence of [username, data]
    raf,            \* requestAnimationFrame: [pending, running, nextId]
    now,            \* performance.now() / the timer clock, in ms
    ctx,            \* chart.js:29   the 2d context obtained by initECG, or "none"
    listeners,      \* number of resize listeners / observers registered on the page
    encoderLib,     \* the encoder library is present: window.GIF / import('gifencoder')
    renderers,      \* NodeECGRenderer / SimpleECGRenderer instances by id
    runs,           \* the recordings started so far, in call order
    timers,         \* pending setTimeout callbacks: [run, due], in request order
    frame,          \* what the last composed frame drew: [host, tick, ops, rows, fills, plotW]
    nRender,        \* number of frames composed since the initial state
    resetPending,   \* a resize or dataset replacement happened and no frame was composed since
    msgBox          \* msgBox.js: [resolver, show, onKey, onOverlayClick, onclick] and the
                    \* promises showMessage returned, each "pending" or its value

vars == <<env, canvas, client, width, height, xTick, scanOffset, rafId,
          pointsPerUser, datasets, raf, now, ctx, listeners, encoderLib, renderers,
          runs, timers, frame, nRender, resetPending, msgBox>>

\* the module-level state of chart.js
chartVars == <<canvas, ctx, width, height, xTick, scanOffset, rafId, pointsPerUser,
               datasets>>
\* the recording pipelines and the headless renderers
recVars == <<renderers, runs, timers>>

(***************************************************************************)
(* Program constants                                                       *)
(***************************************************************************)
AMP_BASE == 50
MAX_INTENSITY == 3
SPEED_BASE == 400
SPEED_SLOPE == 10
MIN_SPEED == 80
GLOW_RADIUS == 6
RIGHT_SAFE_PAD == GLOW_RADIUS + 4
SCAN_SPEED_PX_PER_FRAME == 3
TOP_PAD == 10
LEFT_PAD == 10
BOTTOM_PAD == 10
MIN_TRACK_H == 50
MIN_PLOT_W == 60
MIN_CANVAS_W == 300
MIN_CANVAS_H == 200
TICK_PERIOD == 200

(***************************************************************************)
(* Rational arithmetic                                                     *)
(***************************************************************************)
Abs(x) == IF x < 0 THEN -x ELSE x

RECURSIVE GCD(_, _)
GCD(a, b) == IF b = 0 THEN a ELSE GCD(b, a % b)

RNorm(n, d) ==
    LET g == GCD(Abs(n), d)
    IN  IF n = 0 THEN <<0, 1>> ELSE <<n \div g, d \div g>>

R(n) == <<n, 1>>
Frac(n, d) == RNorm(n, d)

RAdd(a, b) ==
    LET g == GCD(a[2], b[2])
    IN  RNorm(a[1] * (b[2] \div g) + b[1] * (a[2] \div g), (a[2] \div g) * b[2])
RNeg(a) == <<-a[1], a[2]>>
RSub(a, b) == RAdd(a, RNeg(b))
RMul(a, b) ==
    LET g1 == GCD(Abs(a[1]), b[2])
        g2 == GCD(Abs(b[1]), a[2])
    IN  IF a[1] = 0 \/ b[1] = 0 THEN <<0, 1>>
        ELSE <<(a[1] \div g1) * (b[1] \div g2), (a[2] \div g2) * (b[2] \div g1)>>
RInv(a) == IF a[1] < 0 THEN <<-a[2], -a[1]>> ELSE <<a[2], a[1]>>
RDiv(a, b) == RMul(a, RInv(b))
RAbs(a) == <<Abs(a[1]), a[2]>>
RLe(a, b) == RSub(a, b)[1] <= 0
RLt(a, b) == RSub(a, b)[1] < 0
RMin(a, b) == IF RLe(a, b) THEN a ELSE b
RMax(a, b) == IF RLe(a, b) THEN b ELSE a
\* t % m for an integer t >= 0 and a rational m > 0
RMod(t, m) == RNorm((t * m[2]) % m[1], m[2])
Floor(a) == a[1] \div a[2]

(***************************************************************************)
(* Signal parameters and the heartbeat signal (chart.js 45-98)             *)
(***************************************************************************)
RECURSIVE SumSeq(_)
SumSeq(s) == IF s = <<>> THEN 0 ELSE Head(s) + SumSeq(Tail(s))

avgOf(arr) == IF Len(arr) # 0 THEN Frac(SumSeq(arr), Len(arr)) ELSE R(0)

computeParams(series) ==
    LET avg == avgOf(series)
    IN  [intensity |-> RMin(RMul(avg, Frac(1, 2)), R(MAX_INTENSITY)),
         speed     |-> RMax(R(MIN_SPEED), RSub(R(SPEED_BASE), RMul(avg, R(SPEED_SLOPE)))),
         avg       |-> avg]

QRS_CENTER == Frac(82, 100)
QRS_WIDTH == Frac(6, 100)
Q_DEPTH == Frac(-55, 100)
R_HEIGHT == Frac(16, 10)
S_DEPTH == Frac(-45, 100)
NOISE_FRAC == Frac(5, 100)

\* chart.js 80-91: the value inside the spike, blend being 1 at its centre
QRSValue(phase, half, blend, scale) ==
    IF RLt(phase, half)
    THEN RMul(RAdd(RMul(Q_DEPTH, RSub(R(1), blend)), RMul(R_HEIGHT, blend)), scale)
    ELSE RMul(RAdd(RMul(S_DEPTH, RSub(R(1), blend)), RMul(R_HEIGHT, blend)), scale)

\* the noise three times as large
QRSOrNoiseLoud(phase, left, right, half, halfW, scale, rnd) ==
    IF RLe(left, phase) /\ RLe(phase, right)
    THEN QRSValue(phase, half, RSub(R(1), RDiv(RAbs(RSub(phase, half)), halfW)), scale)
    ELSE RMul(RMul(RSub(rnd, Frac(1, 2)), R(6)), RMul(NOISE_FRAC, scale))

\* the spike with the noise term added to it
QRSOrNoiseJittered(phase, left, right, half, halfW, scale, rnd) ==
    IF RLe(left, phase) /\ RLe(phase, right)
    THEN RAdd(QRSValue(phase, half, RSub(R(1), RDiv(RAbs(RSub(phase, half)), halfW)), scale),
              RMul(RMul(RSub(rnd, Frac(1, 2)), R(2)), RMul(NOISE_FRAC, scale)))
    ELSE RMul(RMul(RSub(rnd, Frac(1, 2)), R(2)), RMul(NOISE_FRAC, scale))

\* chart.js 71-97, with half = (QRS_LEFT + QRS_RIGHT) / 2 and halfW = QRS_WIDTH * 0.5
QRSOrNoise(phase, left, right, half, halfW, scale, rnd) ==
    IF RLe(left, phase) /\ RLe(phase, right)
    THEN QRSValue(phase, half, RSub(R(1), RDiv(RAbs(RSub(phase, half)), halfW)), scale)
    ELSE RMul(RMul(RSub(rnd, Frac(1, 2)), R(2)), RMul(NOISE_FRAC, scale))

\* chart.js 65-71: the tick lies in the spike window
InQRS(t, speed, qrsWidth) ==
    /\ RLe(RSub(QRS_CENTER, RMul(qrsWidth, Frac(1, 2))), RDiv(RMod(t, speed), speed))
    /\ RLe(RDiv(RMod(t, speed), speed), RAdd(QRS_CENTER, RMul(qrsWidth, Frac(1, 2))))

\* chart.js 67-68
QRSWindow(phase, left, right, halfW, scale, rnd) ==
    QRSOrNoise(phase, left, right, RMul(RAdd(left, right), Frac(1, 2)), halfW, scale, rnd)

\* chart.js 57-98 with the spike width as a parameter; rnd is the value Math.random()
\* returns when the noise branch is taken
Heartbeat(t, intensity, speed, rnd, qrsWidth) ==
    QRSWindow(RDiv(RMod(t, speed), speed),
              RSub(QRS_CENTER, RMul(qrsWidth, Frac(1, 2))),
              RAdd(QRS_CENTER, RMul(qrsWidth, Frac(1, 2))),
              RMul(qrsWidth, Frac(1, 2)),
              RMul(R(AMP_BASE), intensity), rnd)

heartbeatPattern(t, intensity, speed, rnd) == Heartbeat(t, intensity, speed, rnd, QRS_WIDTH)

\* chart.js 265-267: the tick advances by 2 inside the spike window of a 200-tick period
TickStep(t) ==
    LET phase == Frac(t % TICK_PERIOD, TICK_PERIOD)
        inQRS == RLe(RSub(Frac(82, 100), Frac(3, 100)), phase)
                 /\ RLe(phase, RAdd(Frac(82, 100), Frac(3, 100)))
    IN  IF inQRS THEN 2 ELSE 1

\* the status with the upper threshold taken as inclusive
DiagStatusInclusive(avg) ==
    IF avg = R(0) THEN "No activity"
    ELSE IF RLt(avg, R(1)) THEN "Low"
    ELSE IF RLe(avg, R(3)) THEN "Healthy"
    ELSE "Monster"

\* chart.js 128-131
DiagStatus(avg) ==
    IF avg = R(0) THEN "No activity"
    ELSE IF RLt(avg, R(1)) THEN "Low"
    ELSE IF RLt(avg, R(3)) THEN "Healthy"
    ELSE "Monster"

(***************************************************************************)
(* Point buffers and track layout (chart.js 172-216)                       *)
(***************************************************************************)
Max(a, b) == IF a >= b THEN a ELSE b
Min(a, b) == IF a <= b THEN a ELSE b

\* ensureFilled without the branch that drops the oldest samples
ensureFilledPadOnly(points, widthNeeded, baselineY) ==
    IF Len(points) < widthNeeded
    THEN [i \in 1..(widthNeeded - Len(points)) |-> baselineY] \o points
    ELSE points

\* chart.js 182-189
ensureFilled(points, widthNeeded, baselineY) ==
    IF Len(points) < widthNeeded
    THEN [i \in 1..(widthNeeded - Len(points)) |-> baselineY] \o points
    ELSE IF Len(points) > widthNeeded
         THEN SubSeq(points, Len(points) - widthNeeded + 1, Len(points))
         ELSE points

\* the new sample put at the front and the newest one dropped
AdvanceAtFront(points, v) == <<v>> \o SubSeq(points, 1, Len(points) - 1)

\* chart.js 215-216: points.push(v); points.shift()
Advance(points, v) == Tail(Append(points, v))

\* chart.js 177-179, 192-193
Layout(W, H, nTracks) ==
    LET tracks  == Max(1, nTracks)
        usableH == H - TOP_PAD - BOTTOM_PAD
    IN  [tracks |-> tracks,
         trackH |-> Max(MIN_TRACK_H, usableH \div tracks),
         plotX0 |-> LEFT_PAD,
         plotW  |-> Max(MIN_PLOT_W, W - LEFT_PAD - RIGHT_SAFE_PAD)]

\* chart.js 203-205
ScaleFactor(trackH, intensity) ==
    LET expectedScale == RMul(R(AMP_BASE), RMax(Frac(1, 1000), intensity))
        maxAmplitude  == RMul(R(trackH), Frac(45, 100))
    IN  RMin(R(1), RDiv(maxAmplitude, expectedScale))

\* chart.js 218-239: the polyline and the glow marker drawn from the buffer; the result
\* is the buffers after the iteration and a record of what it did
TrackDraw(d, pts, lay, trackMid, points, filled, yVal, after) ==
    [pts  |-> [u \in DOMAIN pts \cup {d.username} |->
                  IF u = d.username THEN after ELSE pts[u]],
     fill |-> [user |-> d.username, series |-> d.data, created |-> d.username \notin DOMAIN pts,
               before |-> Len(points), filled |-> Len(filled), after |-> Len(after),
               plotW |-> lay.plotW, trackMid |-> trackMid, trackH |-> lay.trackH,
               yVal |-> yVal, sample |-> after[Len(after)],
               glowX |-> lay.plotX0 + Len(after) - 1]]

\* chart.js 214-216
TrackPush(d, pts, lay, trackMid, points, filled, yVal) ==
    TrackDraw(d, pts, lay, trackMid, points, filled, yVal,
              Advance(filled, RAdd(R(trackMid), yVal)))

\* chart.js 202-214
TrackFill(d, pts, lay, trackMid, p, points, tick, rnd, qrsWidth) ==
    TrackPush(d, pts, lay, trackMid, points,
              ensureFilled(points, lay.plotW, R(trackMid)),
              RMul(Heartbeat(tick, p.intensity, p.speed, rnd, qrsWidth),
                   ScaleFactor(lay.trackH, p.intensity)))

\* chart.js 196-240: one iteration of datasets.forEach, idx counted from 0
TrackStep(d, idx, pts, lay, tick, rnd, qrsWidth) ==
    TrackFill(d, pts, lay, TOP_PAD + idx * lay.trackH + (lay.trackH \div 2),
              computeParams(d.data),
              IF d.username \in DOMAIN pts THEN pts[d.username] ELSE <<>>,
              tick, rnd, qrsWidth)

\* chart.js 195-240: datasets.forEach in dataset order; rs[i] is the random draw of track i
RECURSIVE TrackLoop(_, _, _, _, _, _, _, _)
TrackNext(ds, i, st, fills, lay, tick, rs, qrsWidth) ==
    TrackLoop(ds, i + 1, st.pts, Append(fills, st.fill), lay, tick, rs, qrsWidth)
TrackLoop(ds, i, pts, fills, lay, tick, rs, qrsWidth) ==
    IF i > Len(ds) THEN [pts |-> pts, fills |-> fills]
    ELSE TrackNext(ds, i, TrackStep(ds[i], i - 1, pts, lay, tick, rs[i], qrsWidth),
                   fills, lay, tick, rs, qrsWidth)

\* chart.js 125-134: the overlay rows, header first
DiagRows(ds) ==
    <<[text |-> "Status:", user |-> "", status |-> "", avg |-> R(0)]>> \o
    [i \in 1..Len(ds) |->
        [text |-> "row", user |-> ds[i].username,
         status |-> DiagStatus(avgOf(ds[i].data)), avg |-> avgOf(ds[i].data)]]

\* the drawing operations with a glow marker painted once more after the tracks
DrawOpsExtraGlow(fills) ==
    <<[op |-> "clear", user |-> ""], [op |-> "grid", user |-> ""]>> \o
    [i \in 1..(2 * Len(fills)) |->
        [op |-> IF i % 2 = 1 THEN "polyline" ELSE "glow", user |-> fills[(i + 1) \div 2].user]] \o
    <<[op |-> "glow", user |-> ""], [op |-> "beam", user |-> ""], [op |-> "overlay", user |-> ""]>>

\* the drawing operations with the overlay painted before the beam
DrawOpsOverlayFirst(fills) ==
    <<[op |-> "clear", user |-> ""], [op |-> "grid", user |-> ""]>> \o
    [i \in 1..(2 * Len(fills)) |->
        [op |-> IF i % 2 = 1 THEN "polyline" ELSE "glow", user |-> fills[(i + 1) \div 2].user]] \o
    <<[op |-> "overlay", user |-> ""], [op |-> "beam", user |-> ""]>>

\* the drawing operations of one frame, in the order of chart.js 167-262
DrawOps(fills) ==
    <<[op |-> "clear", user |-> ""], [op |-> "grid", user |-> ""]>> \o
    [i \in 1..(2 * Len(fills)) |->
        [op |-> IF i % 2 = 1 THEN "polyline" ELSE "glow", user |-> fills[(i + 1) \div 2].user]] \o
    <<[op |-> "beam", user |-> ""], [op |-> "overlay", user |-> ""]>>

\* the beam advanced without wrapping at the plot width
ScanAdvanceNoWrap(offset, step, plotW) == offset + step

\* chart.js 259
ScanAdvance(offset, step, plotW) == (offset + step) % plotW

NoFrame ==
    [host |-> "none", tick |-> -1, users |-> 0, ops |-> <<>>, rows |-> <<>>, fills |-> <<>>,
     plotW |-> 0, width |-> 0, height |-> 0]

(***************************************************************************)
(* Bounds and input pools                                                  *)
(***************************************************************************)
MaxRenders == 2         \* frames composed per behaviour of the rendering specification
MaxInits == 1           \* successful initECG calls per behaviour
FrameMs == 16           \* display refresh interval of the rendering specification

\* client sizes of the canvas element: above and below the minimum surface size
ClientSizes == {<<320, 230>>, <<250, 120>>}

\* values returned by Math.random(): [0, 1)
RandPool == {R(0), Frac(999, 1000)}

\* arguments of setDatasets; isArray = FALSE models a missing or non-array data
Entry(u, data) == [username |-> u, data |-> data, isArray |-> TRUE]
\* an entry whose data is no array (a string of one character, read as a series)
BadEntry(u) == [username |-> u, data |-> <<7>>, isArray |-> FALSE]
DatasetPool ==
    { <<>>,
      <<Entry("a", <<2>>)>>,
      <<Entry("a", <<0, 1>>), BadEntry("b")>>,
      <<Entry("a", <<6, 8>>), Entry("b", <<0>>), Entry("c", <<3>>)>>,
      <<Entry("a", <<>>), Entry("b", <<>>), Entry("c", <<>>), Entry("d", <<>>)>> }

(***************************************************************************)
(* requestAnimationFrame: callbacks requested during a frame run in the    *)
(* next one, in request order                                              *)
(***************************************************************************)
RafRequest(q, fn, run) ==
    [q EXCEPT !.pending = Append(@, [id |-> q.nextId, fn |-> fn, run |-> run]),
              !.nextId = @ + 1]
\* cancelAnimationFrame cancelling nothing
RafCancelNothing(q, id) == q

RafCancel(q, id) ==
    [q EXCEPT !.pending = SelectSeq(@, LAMBDA c : c.id # id),
              !.running = SelectSeq(@, LAMBDA c : c.id # id)]
Idle == raf.running = <<>>

(***************************************************************************)
(* The interactive host (chart.js 166-311)                                 *)
(***************************************************************************)
\* chart.js 281-292, with w and h the floored client size
ResizeBody(w, h) ==
    LET changed == w # width \/ h # height
        nw == IF changed THEN Max(MIN_CANVAS_W, w) ELSE width
        nh == IF changed THEN Max(MIN_CANVAS_H, h) ELSE height
    IN  /\ width' = nw
        /\ height' = nh
        /\ pointsPerUser' = IF changed THEN <<>> ELSE pointsPerUser
        /\ scanOffset' = 0
        /\ resetPending' = (resetPending \/ changed)

\* chart.js 276-302; found = FALSE when no element has the id
InitECG(found) ==
    /\ env = "browser" /\ Idle
    /\ IF ~found
       THEN /\ canvas' = "none"
            /\ UNCHANGED <<ctx, width, height, pointsPerUser, scanOffset, resetPending,
                           listeners, raf, rafId>>
       ELSE /\ canvas' = "ecgChart"
            /\ ctx' = "2d"
            /\ ResizeBody(client[1], client[2])
            /\ listeners' = listeners + 2
            /\ LET q == IF rafId # 0 THEN RafCancel(raf, rafId) ELSE raf
               IN  /\ rafId' = q.nextId
                   /\ raf' = RafRequest(q, "render", 0)
    /\ UNCHANGED <<msgBox, env, client, xTick, datasets, now, frame, nRender, encoderLib, recVars>>

\* a resize event or ResizeObserver notification; the handler is initECG's resize,
\* which reads the module-level canvas
ResizeEvent(w, h) ==
    /\ env = "browser" /\ Idle
    /\ listeners > 0
    /\ client' = <<w, h>>
    /\ IF canvas = "none"
       THEN UNCHANGED <<width, height, pointsPerUser, scanOffset, resetPending>>
       ELSE ResizeBody(w, h)
    /\ UNCHANGED <<msgBox, env, canvas, ctx, xTick, rafId, datasets, raf, now, listeners,
                   frame, nRender, encoderLib, recVars>>

\* chart.js 304-311
\* the stored datasets with the data field taken as it comes
SanitizeDatasetsUnchecked(newDatasets) ==
    [i \in 1..Len(newDatasets) |->
        [username |-> newDatasets[i].username, data |-> newDatasets[i].data]]

\* chart.js 305-309
SanitizeDatasets(newDatasets) ==
    [i \in 1..Len(newDatasets) |->
        [username |-> newDatasets[i].username,
         data |-> IF newDatasets[i].isArray THEN newDatasets[i].data ELSE <<>>]]

SetDatasets(newDatasets) ==
    /\ env \in {"browser", "node"} /\ Idle
    /\ datasets' = SanitizeDatasets(newDatasets)
    /\ pointsPerUser' = <<>>
    /\ resetPending' = TRUE
    /\ UNCHANGED <<msgBox, env, canvas, ctx, client, width, height, xTick, scanOffset, rafId,
                   raf, now, listeners, frame, nRender, encoderLib, recVars>>

\* the display refresh: the callbacks requested so far become the ones to run
BeginFrame(dt) ==
    /\ env = "browser" /\ Idle
    /\ raf.pending # <<>>
    /\ raf' = [raf EXCEPT !.running = raf.pending, !.pending = <<>>]
    /\ now' = now + dt
    /\ UNCHANGED <<msgBox, env, client, chartVars, listeners, frame, nRender, resetPending,
                   encoderLib, recVars>>

\* chart.js 195-267: the state after the frame, res being the outcome of the track loop
RenderCommit(lay, res) ==
    /\ pointsPerUser' = res.pts
    /\ frame' = [host |-> "browser", tick |-> xTick, users |-> Len(datasets),
                 ops |-> DrawOps(res.fills), rows |-> DiagRows(datasets),
                 fills |-> res.fills, plotW |-> lay.plotW,
                 width |-> width, height |-> height]
    /\ scanOffset' = ScanAdvance(scanOffset, SCAN_SPEED_PX_PER_FRAME, lay.plotW)
    /\ xTick' = xTick + TickStep(xTick)

RenderTracks(lay, rs) ==
    RenderCommit(lay, TrackLoop(datasets, 1, pointsPerUser, <<>>, lay, xTick, rs, QRS_WIDTH))

\* chart.js 269: the callback leaves the frame's list and requests itself again
RenderAgain(q) ==
    /\ rafId' = q.nextId
    /\ raf' = RafRequest(q, "render", 0)

\* chart.js 166-270, run as the next callback of the frame
Render(rs) ==
    /\ raf.running # <<>> /\ Head(raf.running).fn = "render"
    /\ RenderTracks(Layout(width, height, Len(datasets)), rs)
    /\ RenderAgain([raf EXCEPT !.running = Tail(@)])
    /\ nRender' = nRender + 1
    /\ resetPending' = FALSE
    /\ UNCHANGED <<msgBox, env, canvas, ctx, client, width, height, datasets, now, listeners,
                   encoderLib, recVars>>

(***************************************************************************)
(* Recordings: one record per export call                                  *)
(***************************************************************************)
Round(a) == Floor(RAdd(a, Frac(1, 2)))

\* chart.js 381 and 454: Math.max(1, Math.floor(seconds * fps))
TotalFrames(seconds, fps) == Max(1, Floor(RMul(seconds, R(fps))))

NewRun(kind, rid, opt, ds, avail) ==
    [kind |-> kind, rid |-> rid, seconds |-> opt.seconds, fps |-> opt.fps, ds |-> ds,
     totalFrames |-> 0, captured |-> 0, last |-> now, encoder |-> FALSE,
     frames |-> <<>>, finalized |-> 0, phase |-> "importing", promise |-> "pending",
     error |-> "", avail |-> avail, failedAt |-> -1, abortedAt |-> -1]

Reject(r, why) == [r EXCEPT !.phase = "error", !.promise = "rejected", !.error = why]

\* the availability test with the encoder library left out
ExporterAvailableCanvasOnly(cv, lib) == cv # "none"

\* chart.js 337: canvas && window.GIF
ExporterAvailable(cv, lib) == cv # "none" /\ lib

\* chart.js 326-406: the promise executor runs inside the call; the record keeps in
\* avail whether a canvas and the encoder library were there at the call
ExportECGAsGIF(opt) ==
    /\ env = "browser" /\ Idle
    /\ LET avail == ExporterAvailable(canvas, encoderLib)
           r0    == NewRun("gif", 0, opt, <<>>, canvas # "none" /\ encoderLib)
       IN  IF ~avail
           THEN /\ runs' = Append(runs, Reject(r0, "GIF exporter not available"))
                /\ raf' = raf
           ELSE /\ runs' = Append(runs, [r0 EXCEPT !.encoder = TRUE, !.phase = "capturing",
                                             !.totalFrames = TotalFrames(opt.seconds, opt.fps)])
                /\ raf' = RafRequest(raf, "step", Len(runs) + 1)
    /\ UNCHANGED <<msgBox, env, client, chartVars, now, listeners, encoderLib, renderers, timers,
                   frame, nRender, resetPending>>

\* the end test passing one frame late
FinalizeLate(r) == r.captured > r.totalFrames

\* chart.js 389, chart.js 472, part_003 312
Finalize(r) == r.captured >= r.totalFrames

\* the throttle letting every callback capture
ThrottleAlways(fps, last, t) == TRUE

\* chart.js 396: now - last >= frameDelayMs, with frameDelayMs = 1000 / fps (chart.js 385)
ThrottleOpen(fps, last, t) == RLe(Frac(1000, fps), R(t - last))

\* chart.js 388-403, run as the next callback of the frame; now is the frame's timestamp.
\* blit draws the module-level canvas: with none, drawImage throws after last is set,
\* and the callback ends without requesting the next one

Step ==
    /\ raf.running # <<>> /\ Head(raf.running).fn = "step"
    /\ LET i == Head(raf.running).run
           r == runs[i]
           q == [raf EXCEPT !.running = Tail(@)]
           frameDelayMs == Frac(1000, r.fps)
       IN  IF Finalize(r)
           THEN /\ runs' = [runs EXCEPT ![i].phase = "encoding", ![i].finalized = @ + 1]
                /\ raf' = q
           ELSE IF ThrottleOpen(r.fps, r.last, now) /\ canvas = "none"
           THEN /\ runs' = [runs EXCEPT ![i].last = now, ![i].phase = "threw"]
                /\ raf' = q
           ELSE /\ runs' = IF ThrottleOpen(r.fps, r.last, now)
                           THEN [runs EXCEPT ![i].last = now,
                                             ![i].frames = Append(@, [tick |-> frame.tick,
                                                                      delay |-> Round(frameDelayMs)]),
                                             ![i].captured = @ + 1]
                           ELSE runs
                /\ raf' = RafRequest(q, "step", i)
    /\ UNCHANGED <<msgBox, env, client, chartVars, now, listeners, encoderLib, renderers, timers,
                   frame, nRender, resetPending>>

\* the encoder's "finished" event (chart.js 390) or the output stream's "finish"
\* (chart.js 463-466, part_003 303-306)
EncoderFinished(i) ==
    /\ Idle
    /\ runs[i].phase = "encoding"
    /\ runs[i].kind = "gif" \/ runs[i].failedAt < 0
    /\ runs' = [runs EXCEPT ![i].phase = "done", ![i].promise = "resolved"]
    /\ UNCHANGED <<msgBox, env, client, chartVars, raf, now, listeners, encoderLib, renderers,
                   timers, frame, nRender, resetPending>>

\* the encoder's "error" event of the browser export: its listener is registered at
\* finalization only (chart.js 389-392), so before it the event reaches nobody;
\* failedAt keeps the number of frames captured when the failure happened
EncoderError(i) ==
    /\ Idle
    /\ runs[i].kind = "gif" /\ runs[i].phase \in {"capturing", "encoding"}
    /\ runs[i].failedAt < 0
    /\ runs' = IF runs[i].phase = "encoding"
               THEN [runs EXCEPT ![i] = [Reject(@, "encoder error") EXCEPT
                                             !.failedAt = runs[i].captured]]
               ELSE [runs EXCEPT ![i].failedAt = runs[i].captured]
    /\ UNCHANGED <<msgBox, env, client, chartVars, raf, now, listeners, encoderLib, renderers,
                   timers, frame, nRender, resetPending>>

\* the encoder's "abort" event of the browser export: listened to from finalization on
\* (chart.js 391), where it rejects with an Error; abortedAt keeps the number of
\* frames captured when it was raised
EncoderAbort(i) ==
    /\ Idle
    /\ runs[i].kind = "gif" /\ runs[i].phase \in {"capturing", "encoding"}
    /\ runs[i].abortedAt < 0
    /\ runs' = IF runs[i].phase = "encoding"
               THEN [runs EXCEPT ![i] = [Reject(@, "GIF rendering aborted") EXCEPT
                                             !.abortedAt = runs[i].captured]]
               ELSE [runs EXCEPT ![i].abortedAt = runs[i].captured]
    /\ UNCHANGED <<msgBox, env, client, chartVars, raf, now, listeners, encoderLib, renderers,
                   timers, frame, nRender, resetPending>>

\* the output stream's "error" event of the headless exports (chart.js 468,
\* part_003 308): the listener is reject itself, nothing stops renderFrame's timer
StreamError(i) ==
    /\ runs[i].kind # "gif" /\ runs[i].phase \in {"capturing", "encoding"}
    /\ runs[i].failedAt < 0
    /\ runs' = [runs EXCEPT ![i].promise = IF @ = "pending" THEN "rejected" ELSE @,
                            ![i].error = IF runs[i].promise = "pending"
                                         THEN "stream error" ELSE @,
                            ![i].failedAt = runs[i].captured]
    /\ UNCHANGED <<msgBox, env, client, chartVars, raf, now, listeners, encoderLib, renderers,
                   timers, frame, nRender, resetPending>>

(***************************************************************************)
(* The Node export of chart.js (421-692)                                   *)
(***************************************************************************)
\* chart.js 652-664: new NodeECGRenderer(w, h)
NodeECGRenderer(w, h) ==
    [kind |-> "node", width |-> w, height |-> h, xTick |-> 0, scanOffset |-> 0,
     pointsPerUser |-> <<>>, datasets |-> <<>>]

\* chart.js 665-674
NodeSetDatasets(id, newDatasets) ==
    /\ env = "node"
    /\ id \in DOMAIN renderers
    /\ renderers' = [renderers EXCEPT ![id].datasets = SanitizeDatasets(newDatasets),
                                      ![id].pointsPerUser = <<>>]
    /\ resetPending' = TRUE
    /\ UNCHANGED <<msgBox, env, client, chartVars, raf, now, listeners, encoderLib, runs, timers,
                   frame, nRender>>

\* chart.js 676-691 and 421-433: the call, up to the first await
GenerateGIF(id, opt) ==
    /\ env = "node"
    /\ id \in DOMAIN renderers
    /\ runs' = Append(runs, NewRun("node", id, opt, <<>>, encoderLib))
    /\ UNCHANGED <<msgBox, env, client, chartVars, raf, now, listeners, encoderLib, renderers,
                   timers, frame, nRender, resetPending>>

\* chart.js 585-594: the overlay rows of the Node export
NodeDiagStatus(avg) ==
    IF avg = R(0) THEN "No activity"
    ELSE IF RLt(avg, R(1)) THEN "Low"
    ELSE IF RLt(avg, R(3)) THEN "Healthy"
    ELSE "Monster"

NodeDiagRows(ds) ==
    <<[text |-> "Status:", user |-> "", status |-> "", avg |-> R(0)]>> \o
    [i \in 1..Len(ds) |->
        [text |-> "row", user |-> ds[i].username,
         status |-> NodeDiagStatus(avgOf(ds[i].data)), avg |-> avgOf(ds[i].data)]]

\* chart.js 471-625: one frame composed by renderFrame for renderer rr: the buffers,
\* the frame, the beam offset and the tick after it
NodeFrame(rr, lay, res) ==
    [pts   |-> res.pts,
     frame |-> [host |-> "node", tick |-> xTick, users |-> Len(rr.datasets),
                ops |-> DrawOps(res.fills), rows |-> NodeDiagRows(datasets),
                fills |-> res.fills, plotW |-> lay.plotW,
                width |-> rr.width, height |-> rr.height],
     scan  |-> ScanAdvance(scanOffset, SCAN_SPEED_PX_PER_FRAME, lay.plotW),
     tick  |-> xTick + TickStep(xTick)]

NodeTracks(rr, lay, rs) ==
    NodeFrame(rr, lay, TrackLoop(rr.datasets, 1, pointsPerUser, <<>>, lay, xTick, rs, QRS_WIDTH))

NodeCompose(rr, rs) == NodeTracks(rr, Layout(rr.width, rr.height, Len(datasets)), rs)

\* chart.js 477-636: the frame c is submitted and the next call is scheduled
NodeSubmit(i, rb, tm, t, c) ==
    /\ pointsPerUser' = c.pts
    /\ xTick' = c.tick
    /\ scanOffset' = c.scan
    /\ frame' = c.frame
    /\ runs' = [rb EXCEPT ![i].frames = Append(@, [tick |-> xTick,
                                                   delay |-> Round(Frac(1000, rb[i].fps))]),
                          ![i].captured = @ + 1]
    /\ timers' = Append(tm, [run |-> i, due |-> t + Round(Frac(1000, rb[i].fps))])
    /\ nRender' = nRender + 1
    /\ resetPending' = FALSE

\* chart.js 471-636: renderFrame of run i, called at time t; rb and tm are the runs and
\* timers as its caller leaves them
NodeRenderFrame(i, rb, tm, t, rs) ==
    IF Finalize(rb[i])
    THEN /\ runs' = [rb EXCEPT ![i].phase = "encoding", ![i].finalized = @ + 1]
         /\ timers' = tm
         /\ UNCHANGED <<pointsPerUser, xTick, scanOffset, frame, nRender, resetPending>>
    ELSE NodeSubmit(i, rb, tm, t, NodeCompose(renderers[rb[i].rid], rs))

\* chart.js 434-461 and 638: the imports settle, the encoder is set up and renderFrame
\* is called for the first time
NodeStart(i, rs) ==
    /\ env = "node"
    /\ runs[i].phase = "importing"
    /\ IF ~encoderLib
       THEN /\ runs' = [runs EXCEPT ![i] = Reject(@, "Cannot find package")]
            /\ UNCHANGED <<pointsPerUser, xTick, scanOffset, frame, nRender, resetPending,
                           timers>>
       ELSE NodeRenderFrame(i,
                [runs EXCEPT ![i].encoder = TRUE, ![i].phase = "capturing",
                             ![i].totalFrames = TotalFrames(runs[i].seconds, runs[i].fps)],
                timers, now, rs)
    /\ UNCHANGED <<msgBox, env, client, canvas, ctx, width, height, rafId, datasets, raf, now,
                   listeners, encoderLib, renderers>>

\* the pending timer that fires next: the earliest due, the first requested among equals
NextTimer ==
    CHOOSE k \in 1..Len(timers) :
        \A j \in 1..Len(timers) :
            timers[k].due < timers[j].due \/ (timers[k].due = timers[j].due /\ k <= j)

DropTimer(k) == [j \in 1..(Len(timers) - 1) |-> IF j < k THEN timers[j] ELSE timers[j + 1]]

\* chart.js 635: the timeout set by renderFrame fires
NodeTimer(rs) ==
    /\ env = "node"
    /\ timers # <<>>
    /\ LET k == NextTimer
           t == Max(now, timers[k].due)
       IN  /\ now' = t
           /\ NodeRenderFrame(timers[k].run, runs, DropTimer(k), t, rs)
    /\ UNCHANGED <<msgBox, env, client, canvas, ctx, width, height, rafId, datasets, raf,
                   listeners, encoderLib, renderers>>

(***************************************************************************)
(* The batch script (part_003)                                             *)
(***************************************************************************)
SCRIPT_WIDTH == 800
SCRIPT_HEIGHT == 300
SCRIPT_FPS == 15
SCRIPT_SECONDS == 30
SCRIPT_SCAN_STEP == 6
WAVE_SPEED_MULT == 4
SCRIPT_QRS_WIDTH == Frac(1, 10)

\* part_003 242-248
SimpleDiagStatus(avg) ==
    IF avg = R(0) THEN "No activity"
    ELSE IF RLt(avg, R(1)) THEN "Low"
    ELSE IF RLt(avg, R(3)) THEN "Healthy"
    ELSE "Monster"

SimpleDiagRows(ds) ==
    <<[text |-> "Status for 7days:", user |-> "", status |-> "", avg |-> R(0)]>> \o
    [i \in 1..Len(ds) |->
        [text |-> "row", user |-> ds[i].username,
         status |-> SimpleDiagStatus(avgOf(ds[i].data)), avg |-> avgOf(ds[i].data)]]

\* part_003 139-265: the renderer and the frame after generateFrame
SimpleFrame(rr, ds, lay, res) ==
    [renderer |-> [rr EXCEPT !.pointsPerUser = res.pts,
                             !.scanOffset = ScanAdvance(@, SCRIPT_SCAN_STEP, lay.plotW),
                             !.xTick = @ + TickStep(@) * WAVE_SPEED_MULT],
     frame    |-> [host |-> "script", tick |-> rr.xTick, users |-> Len(ds),
                   ops |-> DrawOps(res.fills), rows |-> SimpleDiagRows(ds),
                   fills |-> res.fills, plotW |-> lay.plotW,
                   width |-> rr.width, height |-> rr.height]]

SimpleTracks(rr, ds, lay, rs) ==
    SimpleFrame(rr, ds, lay,
                TrackLoop(ds, 1, rr.pointsPerUser, <<>>, lay, rr.xTick, rs, SCRIPT_QRS_WIDTH))

\* part_003 139-265: SimpleECGRenderer.generateFrame on a canvas of W x H
generateFrame(rr, W, H, ds, rs) == SimpleTracks(rr, ds, Layout(W, H, Len(ds)), rs)

\* part_003 337-364 and 269-272: main calls generateECGGIF with one series
ScriptMain(data) ==
    /\ env = "script"
    /\ runs = <<>>
    /\ runs' = <<NewRun("script", 1, [seconds |-> R(SCRIPT_SECONDS), fps |-> SCRIPT_FPS],
                        <<[username |-> "owner", data |-> data]>>, encoderLib)>>
    /\ UNCHANGED <<msgBox, env, client, chartVars, raf, now, listeners, encoderLib, renderers,
                   timers, frame, nRender, resetPending>>

\* part_003 317-325: the frame g is submitted and the next call is scheduled
ScriptSubmit(i, rb, tm, t, rr, g) ==
    /\ renderers' = [j \in {rb[i].rid} |-> g.renderer]
    /\ frame' = g.frame
    /\ runs' = [rb EXCEPT ![i].frames = Append(@, [tick |-> rr.xTick,
                                                   delay |-> Round(Frac(1000, rb[i].fps))]),
                          ![i].captured = @ + 1]
    /\ timers' = Append(tm, [run |-> i, due |-> t + Round(Frac(1000, rb[i].fps))])
    /\ nRender' = nRender + 1
    /\ resetPending' = FALSE

\* part_003 311-326: renderFrame of run i at time t, on renderer rr
ScriptRenderFrame(i, rb, tm, t, rr, rs) ==
    IF Finalize(rb[i])
    THEN /\ runs' = [rb EXCEPT ![i].phase = "encoding", ![i].finalized = @ + 1]
         /\ timers' = tm
         /\ renderers' = [j \in {rb[i].rid} |-> rr]
         /\ UNCHANGED <<frame, nRender, resetPending>>
    ELSE ScriptSubmit(i, rb, tm, t, rr,
                      generateFrame(rr, SCRIPT_WIDTH, SCRIPT_HEIGHT, rb[i].ds, rs))

\* part_003 272-328: the import settles, the renderer and the encoder are created and
\* renderFrame is called for the first time
ScriptStart(rs) ==
    /\ env = "script"
    /\ runs # <<>> /\ runs[1].phase = "importing"
    /\ IF ~encoderLib
       THEN /\ runs' = [runs EXCEPT ![1] = Reject(@, "GIFEncoder not found")]
            /\ UNCHANGED <<renderers, timers, frame, nRender, resetPending>>
       ELSE ScriptRenderFrame(1,
                [runs EXCEPT ![1].encoder = TRUE, ![1].phase = "capturing",
                             ![1].totalFrames = SCRIPT_FPS * SCRIPT_SECONDS],
                timers, now,
                [kind |-> "simple", width |-> SCRIPT_WIDTH, height |-> SCRIPT_HEIGHT,
                 xTick |-> 0, scanOffset |-> 0, pointsPerUser |-> <<>>, datasets |-> <<>>],
                rs)
    /\ UNCHANGED <<msgBox, env, client, chartVars, raf, now, listeners, encoderLib>>

\* part_003 325: the timeout set by renderFrame fires
ScriptTimer(rs) ==
    /\ env = "script"
    /\ timers # <<>>
    /\ LET k == NextTimer
           t == Max(now, timers[k].due)
       IN  /\ now' = t
           /\ ScriptRenderFrame(timers[k].run, runs, DropTimer(k), t,
                                renderers[runs[timers[k].run].rid], rs)
    /\ UNCHANGED <<msgBox, env, client, chartVars, raf, listeners, encoderLib>>

(***************************************************************************)
(* The message dialog (msgBox.js)                                          *)
(***************************************************************************)
\* msgBox.js 1-2 and the page as loaded: no resolver, the overlay hidden, no listener
NoMsgBox ==
    [resolver |-> 0, promises |-> <<>>, show |-> FALSE, onKey |-> FALSE,
     onOverlayClick |-> FALSE, onclick |-> FALSE]

\* msgBox.js 15-25: resolver is the index of the promise whose resolve function it
\* holds, 0 for null; resolving a settled promise changes nothing
close(mb, ret) ==
    [mb EXCEPT !.show = FALSE,
               !.promises = IF mb.resolver # 0
                            THEN [mb.promises EXCEPT ![mb.resolver] =
                                     IF @ = "pending" THEN ret ELSE @]
                            ELSE mb.promises,
               !.resolver = 0,
               !.onKey = FALSE, !.onOverlayClick = FALSE]

MsgUnchanged ==
    UNCHANGED <<env, client, chartVars, raf, now, listeners, encoderLib, recVars, frame,
                nRender, resetPending>>

\* msgBox.js 37-57: the promise's executor runs inside the call
ShowMessage ==
    /\ msgBox' = [msgBox EXCEPT !.show = TRUE, !.onKey = TRUE, !.onOverlayClick = TRUE,
                                !.onclick = TRUE,
                                !.promises = Append(@, "pending"),
                                !.resolver = Len(msgBox.promises) + 1]
    /\ MsgUnchanged

\* msgBox.js 27-30: a keydown event on the window
KeyDown(key) ==
    /\ msgBox.onKey
    /\ msgBox' = IF key = "Escape" THEN close(msgBox, "esc")
                 ELSE IF key = "Enter" THEN close(msgBox, "ok")
                 ELSE msgBox
    /\ MsgUnchanged

\* msgBox.js 32-34: a click event reaching the overlay
OverlayClick(target) ==
    /\ msgBox.onOverlayClick
    /\ msgBox' = IF target = "overlay" THEN close(msgBox, "overlay") ELSE msgBox
    /\ MsgUnchanged

\* msgBox.js 51-52: a click on the OK button or on the close button
ButtonClick(ret) ==
    /\ msgBox.onclick
    /\ msgBox' = close(msgBox, ret)
    /\ MsgUnchanged

(***************************************************************************)
(* Initial states                                                          *)
(***************************************************************************)
\* the tick after n more frames, starting from tick t (chart.js 265-267 repeated)
RECURSIVE TickIter(_, _)
TickIter(n, t) ==
    IF n = 0 THEN t
    ELSE IF n % 2 = 0
         THEN LET m == TickIter(n \div 2, t) IN IF m >= 0 THEN TickIter(n \div 2, m) ELSE m
         ELSE LET u == t + TickStep(t) IN IF u >= 0 THEN TickIter(n - 1, u) ELSE u
TickAfter(k) == TickIter(k, 0)

\* the module was just loaded
Fresh(e, cl, lib, rds) ==
    /\ env = e /\ encoderLib = lib /\ renderers = rds /\ runs = <<>> /\ timers = <<>>
    /\ canvas = "none" /\ ctx = "none" /\ client = cl
    /\ width = 0 /\ height = 0 /\ xTick = 0 /\ scanOffset = 0 /\ rafId = 0
    /\ pointsPerUser = <<>> /\ datasets = <<>>
    /\ raf = [pending |-> <<>>, running |-> <<>>, nextId |-> 1]
    /\ now = 0 /\ listeners = 0 /\ frame = NoFrame /\ nRender = 0
    /\ resetPending = FALSE
    /\ msgBox = NoMsgBox

\* the interactive host after initECG and k frames with no dataset set
Warm(cl, k, lib) ==
    LET lay == Layout(Max(MIN_CANVAS_W, cl[1]), Max(MIN_CANVAS_H, cl[2]), 0)
    IN  /\ env = "browser" /\ encoderLib = lib
        /\ renderers = <<>> /\ runs = <<>> /\ timers = <<>>
        /\ canvas = "ecgChart" /\ ctx = "2d" /\ client = cl
        /\ width = Max(MIN_CANVAS_W, cl[1]) /\ height = Max(MIN_CANVAS_H, cl[2])
        /\ xTick = TickAfter(k)
        /\ scanOffset = (k * SCAN_SPEED_PX_PER_FRAME) % lay.plotW
        /\ rafId = k + 1
        /\ pointsPerUser = <<>> /\ datasets = <<>>
        /\ raf = [pending |-> <<[id |-> k + 1, fn |-> "render", run |-> 0]>>,
                  running |-> <<>>, nextId |-> k + 2]
        /\ now = k * FrameMs /\ listeners = 2
        /\ frame = [host |-> "browser", tick |-> TickAfter(k - 1), users |-> 0,
                    ops |-> DrawOps(<<>>), rows |-> DiagRows(<<>>),
                    fills |-> <<>>, plotW |-> lay.plotW,
                    width |-> Max(MIN_CANVAS_W, cl[1]), height |-> Max(MIN_CANVAS_H, cl[2])]
        /\ nRender = 0 /\ resetPending = FALSE
        /\ msgBox = NoMsgBox

WarmFrames == {92, 296}

\* the NodeECGRenderer instances a Node program creates, by id; they differ in size
NodeRenderers == <<NodeECGRenderer(70, 120), NodeECGRenderer(100, 300)>>
RendererIds == DOMAIN NodeRenderers
NodeDatasetPool == { <<Entry("a", <<2>>)>> }
NodeGlobalPool == { <<Entry("g", <<1>>), Entry("h", <<4>>)>> }
\* export options: seconds and fps
Opt(s10, fps) == [seconds |-> Frac(s10, 10), fps |-> fps]
ShortOptions == {Opt(5, 1)}
\* the series main hands to generateECGGIF
ScriptData == {<<0, 0, 0, 0, 0, 0, 0>>, <<1, 0, 2, 0, 0, 3, 1>>}
MaxRuns == 2            \* export calls per behaviour

RandVecs(n) == [1..n -> RandPool]
TimerTracks ==
    IF timers = <<>> THEN 0
    ELSE LET r == runs[timers[NextTimer].run]
         IN  IF r.kind = "node" THEN Len(renderers[r.rid].datasets) ELSE Len(r.ds)

InitBrowser ==
    \E cl \in ClientSizes :
        \/ Fresh("browser", cl, TRUE, <<>>)
        \/ \E k \in WarmFrames : Warm(cl, k, TRUE)
InitNode == Fresh("node", <<0, 0>>, TRUE, NodeRenderers)
InitScript == Fresh("script", <<0, 0>>, TRUE, <<>>)

NextBrowserRender ==
    \/ \E found \in BOOLEAN : (listeners < 2 * MaxInits /\ InitECG(found))
    \/ \E cl \in ClientSizes : ResizeEvent(cl[1], cl[2])
    \/ \E ds \in DatasetPool : (env = "browser" /\ SetDatasets(ds))
    \/ BeginFrame(FrameMs)
    \/ (nRender < MaxRenders /\ \E rs \in RandVecs(Len(datasets)) : Render(rs))

NextNodeRender ==
    \/ \E id \in RendererIds : \E ds \in NodeDatasetPool : NodeSetDatasets(id, ds)
    \/ \E ds \in NodeGlobalPool : (env = "node" /\ SetDatasets(ds))
    \/ \E id \in RendererIds : \E opt \in ShortOptions :
          (Len(runs) < MaxRuns /\ GenerateGIF(id, opt))
    \/ \E i \in 1..Len(runs) :
          (nRender < MaxRenders /\ env = "node"
           /\ \E rs \in RandVecs(Len(renderers[runs[i].rid].datasets)) : NodeStart(i, rs))
    \/ (nRender < MaxRenders /\ env = "node" /\ \E rs \in RandVecs(TimerTracks) : NodeTimer(rs))

NextScriptRender ==
    \/ \E data \in ScriptData : ScriptMain(data)
    \/ (nRender < MaxRenders /\ env = "script" /\ runs # <<>>
        /\ \E rs \in RandVecs(Len(runs[1].ds)) : ScriptStart(rs))
    \/ (nRender < MaxRenders /\ env = "script" /\ \E rs \in RandVecs(TimerTracks) : ScriptTimer(rs))

InitRender == InitBrowser \/ InitNode \/ InitScript
NextRender ==
    \/ NextBrowserRender
    \/ NextNodeRender
    \/ NextScriptRender
    \/ \E i \in 1..Len(runs) : EncoderFinished(i)

SpecRender == InitRender /\ [][NextRender]_vars

\* the interactive host at every tick of the first periods: initECG, any number of
\* frames from 1 to MaxSignalWarm with no dataset, then setDatasets and frames
MaxSignalWarm == 390
SignalRenders == 2
SignalPool ==
    { <<Entry("a", <<6, 8>>), BadEntry("b")>>,
      <<Entry("c", <<3>>)>>,
      <<Entry("a", <<1, 0, 0>>), Entry("a", <<1, 0, 0>>)>> }

InitSignal == \E k \in 1..MaxSignalWarm : Warm(<<320, 230>>, k, TRUE)
NextSignal ==
    \/ \E ds \in SignalPool : (nRender = 0 /\ SetDatasets(ds))
    \/ BeginFrame(FrameMs)
    \/ (nRender < SignalRenders /\ \E rs \in RandVecs(Len(datasets)) : Render(rs))

SpecSignal == InitSignal /\ [][NextSignal]_vars

\* the page with the message dialog: calls of showMessage and the user's keys and clicks
MaxMessages == 3
InitMsg == Fresh("browser", <<0, 0>>, TRUE, <<>>)
NextMsg ==
    \/ (Len(msgBox.promises) < MaxMessages /\ ShowMessage)
    \/ \E key \in {"Escape", "Enter", "a"} : KeyDown(key)
    \/ \E target \in {"overlay", "msgBoxBody"} : OverlayClick(target)
    \/ \E ret \in {"ok", "x"} : ButtonClick(ret)

SpecMsg == InitMsg /\ [][NextMsg]_vars

(***************************************************************************)
(* Properties of the renderers                                             *)
(***************************************************************************)
\* the point buffers and the beam offset the next frame of the host reads
BuffersOf ==
    IF env = "script"
    THEN (IF renderers = <<>> THEN <<>> ELSE renderers[1].pointsPerUser)
    ELSE pointsPerUser
ScanOf ==
    IF env = "script"
    THEN (IF renderers = <<>> THEN 0 ELSE renderers[1].scanOffset)
    ELSE scanOffset

\* C2, as amended: in every frame and for every user, the user's buffer holds exactly
\* plotW samples after ensureFilled, which is before the push and shift, and after them
C2_BufferLength ==
    \A i \in DOMAIN frame.fills :
        /\ frame.fills[i].filled = frame.fills[i].plotW
        /\ frame.fills[i].after = frame.fills[i].plotW
\* C2 witness: a frame found a buffer longer than its plot width and cut it down
C2_Truncated ==
    \E i \in DOMAIN frame.fills :
        /\ frame.fills[i].before > frame.fills[i].plotW
        /\ frame.fills[i].filled = frame.fills[i].plotW
\* C2 as stated: the buffer holds exactly plotW samples before ensureFilled as well
C2_AsStated ==
    \A i \in DOMAIN frame.fills :
        /\ frame.fills[i].before = frame.fills[i].plotW
        /\ frame.fills[i].filled = frame.fills[i].plotW
        /\ frame.fills[i].after = frame.fills[i].plotW

\* C3: the beam offset is never negative, is below the plot width of the surface in the
\* interactive host at all times (so after every frame and every resize), and is below
\* the plot width of the frame just composed in the headless hosts
C3_ScanInRange ==
    /\ 0 <= ScanOf
    /\ env = "browser" => ScanOf < Layout(width, height, Len(datasets)).plotW
    /\ (env # "browser" /\ frame.host # "none") => ScanOf < frame.plotW
\* C3 witness: a frame has wrapped the beam back to the left edge of the plot
C3_Wrapped ==
    /\ nRender > 0
    /\ frame.host = "browser"
    /\ 0 < scanOffset /\ scanOffset < SCAN_SPEED_PX_PER_FRAME

\* C4: every sample appended by a frame is within 0.45 x trackH of the track midline
C4_AmplitudeBound ==
    \A i \in DOMAIN frame.fills :
        RLe(RAbs(RSub(frame.fills[i].sample, R(frame.fills[i].trackMid))),
            RMul(Frac(45, 100), R(frame.fills[i].trackH)))

\* C5: after a resize or a dataset replacement, and until the next frame is composed,
\* the buffers that frame will read are empty
C5_BuffersCleared == resetPending => BuffersOf = <<>>

\* the status the average determines: the four cases, in the names the code displays
C6_Expected(avg) ==
    CASE avg = R(0) -> "No activity"
      [] RLt(R(0), avg) /\ RLt(avg, R(1)) -> "Low"
      [] RLe(R(1), avg) /\ RLt(avg, R(3)) -> "Healthy"
      [] RLe(R(3), avg) -> "Monster"
C6_Cases(avg) ==
    {c \in 1..4 : \/ c = 1 /\ avg = R(0)
                  \/ c = 2 /\ RLt(R(0), avg) /\ RLt(avg, R(1))
                  \/ c = 3 /\ RLe(R(1), avg) /\ RLt(avg, R(3))
                  \/ c = 4 /\ RLe(R(3), avg)}
\* C6: every status row of every frame, in every host, shows the status its series
\* average determines, and exactly one of the four cases applies to that average
C6_StatusByAverage ==
    \A i \in 2..Len(frame.rows) :
        /\ frame.rows[i].status = C6_Expected(frame.rows[i].avg)
        /\ Cardinality(C6_Cases(frame.rows[i].avg)) = 1
\* C6 witness: a frame of the interactive host shows a row whose average is exactly 3
C6_AtThreshold ==
    /\ frame.host = "browser"
    /\ \E i \in 2..Len(frame.rows) : frame.rows[i].avg = R(3) /\ frame.rows[i].status = "Monster"

\* C7: a frame composed from zero users paints the background and the grid, no polyline
\* and no glow marker, and creates no point buffer
C7_EmptyDataset ==
    [][(nRender' # nRender /\ frame'.users = 0) =>
          /\ \A k \in DOMAIN frame'.ops : frame'.ops[k].op \notin {"polyline", "glow"}
          /\ \E k \in DOMAIN frame'.ops : frame'.ops[k].op = "grid"
          /\ BuffersOf' = BuffersOf]_vars
\* C7 witness: the interactive host has composed a frame with no dataset set
C7_EmptyFrame ==
    /\ nRender > 0
    /\ frame.host = "browser"
    /\ frame.users = 0
    /\ pointsPerUser = <<>>

RecCallFrames == 2      \* the program makes its calls before this many frames are composed
RecFrameMs == 100       \* display refresh interval of the recording specification
MaxRecInits == 2        \* successful initECG calls per behaviour
RecClient == <<320, 230>>
RecOptions == {Opt(50, 10), Opt(25, 1)}
NodeRecOptions == {Opt(3, 10), Opt(25, 1)}
RecScriptData == {<<0, 0, 0, 0, 0, 0, 0>>}

CallWindow == nRender < RecCallFrames
Capturing == \E i \in 1..Len(runs) : runs[i].phase = "capturing"

InitRec ==
    \E lib \in BOOLEAN :
        \/ Fresh("browser", RecClient, lib, <<>>)
        \/ Fresh("node", <<0, 0>>, lib, NodeRenderers)
        \/ Fresh("script", <<0, 0>>, lib, <<>>)

NextBrowserRec ==
    \/ \E found \in BOOLEAN : (CallWindow /\ listeners < 2 * MaxRecInits /\ InitECG(found))
    \/ \E opt \in RecOptions : (CallWindow /\ Len(runs) < MaxRuns /\ ExportECGAsGIF(opt))
    \/ ((CallWindow \/ Capturing) /\ BeginFrame(RecFrameMs))
    \/ \E rs \in RandVecs(Len(datasets)) : Render(rs)
    \/ Step

NextNodeRec ==
    \/ \E id \in RendererIds : \E opt \in NodeRecOptions :
          (CallWindow /\ Len(runs) < MaxRuns /\ GenerateGIF(id, opt))
    \/ \E i \in 1..Len(runs) :
          (env = "node" /\ \E rs \in RandVecs(Len(renderers[runs[i].rid].datasets)) : NodeStart(i, rs))
    \/ (env = "node" /\ \E rs \in RandVecs(TimerTracks) : NodeTimer(rs))

NextScriptRec ==
    \/ \E data \in RecScriptData : ScriptMain(data)
    \/ (env = "script" /\ runs # <<>> /\ \E rs \in RandVecs(Len(runs[1].ds)) : ScriptStart(rs))
    \/ (env = "script" /\ \E rs \in RandVecs(TimerTracks) : ScriptTimer(rs))

NextRec ==
    \/ NextBrowserRec
    \/ NextNodeRec
    \/ NextScriptRec
    \/ \E i \in 1..Len(runs) : EncoderFinished(i)

SpecRec == InitRec /\ [][NextRec]_vars

\* the browser export under a host that keeps scheduling: the display keeps refreshing
\* while a recording captures, every callback of a running frame is run (a render
\* callback at the head of the frame is the one step that counts a frame), and an
\* encoder that was finalized completes
\* the steps of render (chart.js 166-270) in a host with no dataset set, by what they
\* leave: no buffer touched, a frame of grid, beam and overlay, the beam and the tick
\* advanced, the callback requested again
RenderEmpty ==
    /\ raf.running # <<>> /\ Head(raf.running).fn = "render"
    /\ datasets = <<>>
    /\ frame' = [host |-> "browser", tick |-> xTick, users |-> 0, ops |-> DrawOps(<<>>),
                 rows |-> DiagRows(<<>>), fills |-> <<>>,
                 plotW |-> Layout(width, height, 0).plotW,
                 width |-> width, height |-> height]
    /\ scanOffset' = ScanAdvance(scanOffset, SCAN_SPEED_PX_PER_FRAME,
                                 Layout(width, height, 0).plotW)
    /\ xTick' \in {xTick + 1, xTick + 2}
    /\ RenderAgain([raf EXCEPT !.running = Tail(@)])
    /\ nRender' = nRender + 1
    /\ resetPending' = FALSE
    /\ UNCHANGED <<msgBox, env, canvas, ctx, client, width, height, datasets, pointsPerUser, now,
                   listeners, encoderLib, recVars>>

InitExport == \E lib \in BOOLEAN : Fresh("browser", RecClient, lib, <<>>)
NextExport ==
    \/ NextBrowserRec
    \/ \E i \in 1..Len(runs) : EncoderFinished(i)
FairExport ==
    /\ WF_vars((CallWindow \/ Capturing) /\ BeginFrame(RecFrameMs))
    /\ WF_vars(RenderEmpty)
    /\ WF_vars(Step)
    /\ WF_vars(\E i \in 1..Len(runs) : EncoderFinished(i))

SpecExportFair == InitExport /\ [][NextExport]_vars /\ FairExport

\* the recordings with the events of a failing or aborted encoder and of a failing
\* output stream, raised during the first frames
NextFault ==
    \/ NextRec
    \/ \E i \in 1..Len(runs) : (CallWindow /\ EncoderError(i))
    \/ \E i \in 1..Len(runs) : (CallWindow /\ EncoderAbort(i))
    \/ \E i \in 1..Len(runs) : (CallWindow /\ StreamError(i))

SpecFault == InitRec /\ [][NextFault]_vars

(***************************************************************************)
(* Properties of the recordings                                            *)
(***************************************************************************)
Started(r) == r.phase \notin {"importing", "error"}

C8_StrictTickOrder ==
    \A i \in 1..Len(runs) :
        runs[i].kind = "gif" =>
            \A k \in 1..(Len(runs[i].frames) - 1) :
                runs[i].frames[k].tick < runs[i].frames[k + 1].tick

\* the render state the frames of run i are composed from
RenderStateOf(i) ==
    IF runs[i].kind = "script"
    THEN (IF renderers = <<>> THEN <<>> ELSE renderers[runs[i].rid])
    ELSE <<xTick, scanOffset, pointsPerUser>>
\* C9: a frame submitted by one recording leaves unchanged the render state of every
\* other recording that is capturing
C9_ExclusiveRenderState ==
    [][\A i, j \in 1..Len(runs) :
          (/\ i # j
           /\ runs[i].phase = "capturing"
           /\ runs'[j].captured = runs[j].captured + 1)
          => RenderStateOf(i)' = RenderStateOf(i)]_vars

\* C10: an export called with no canvas or no encoder library never resolves, captures
\* no frame, creates no encoder and leaves no callback or timer behind; the interactive
\* one is rejected inside the call with the exporter's own error
C10_RejectedAtOnce ==
    \A i \in 1..Len(runs) :
        ~runs[i].avail =>
            /\ runs[i].promise # "resolved"
            /\ runs[i].phase \in {"importing", "error"}
            /\ runs[i].frames = <<>> /\ runs[i].captured = 0
            /\ ~runs[i].encoder
            /\ \A k \in 1..Len(raf.pending) : raf.pending[k].run # i
            /\ \A k \in 1..Len(raf.running) : raf.running[k].run # i
            /\ \A k \in 1..Len(timers) : timers[k].run # i
            /\ runs[i].kind = "gif" =>
                  (runs[i].promise = "rejected"
                   /\ runs[i].error = "GIF exporter not available")
            /\ runs[i].phase = "error" => runs[i].promise = "rejected"
\* C10 witness: the canvas is set up, the encoder library is missing, and the
\* interactive export has been rejected
C10_RejectedNoEncoder ==
    /\ canvas # "none" /\ ~encoderLib
    /\ \E i \in 1..Len(runs) : runs[i].kind = "gif" /\ runs[i].promise = "rejected"

\* C11: once the encoder or the output stream of a started recording has failed, no
\* further frame is submitted and the recording never ends as done with its promise
\* resolved
C11_FailureRejects ==
    \A i \in 1..Len(runs) :
        runs[i].failedAt >= 0 =>
            /\ runs[i].captured = runs[i].failedAt
            /\ runs[i].promise # "resolved"
            /\ runs[i].phase # "done"

\* C12: after an abort raised while a recording is capturing, no further frame is
\* captured
C12_AbortHalts ==
    \A i \in 1..Len(runs) :
        runs[i].abortedAt >= 0 => runs[i].captured = runs[i].abortedAt

\* C13: a call of initECG with an id that matches no element leaves the canvas and
\* context references, the surface size, the buffers, the listeners and the render
\* loop exactly as they were, whether or not an earlier call had succeeded
C13_FailedInitKeepsState ==
    [][InitECG(FALSE) =>
         UNCHANGED <<canvas, ctx, width, height, pointsPerUser, listeners, rafId, raf>>]_vars

\* C18: a started recording has totalFrames = ceil(seconds * fps), in every host
C18_TotalFramesCeil ==
    \A i \in 1..Len(runs) :
        Started(runs[i]) =>
            runs[i].totalFrames = -Floor(RNeg(RMul(runs[i].seconds, R(runs[i].fps))))

\* C19: a frame of the interactive host gives each user's buffer exactly one new sample
\* at its end and takes exactly one from its front, and advances the beam offset once by
\* SCAN_SPEED_PX_PER_FRAME, for every dataset setDatasets accepts
C19_OneSamplePerFrame ==
    [][nRender' = nRender + 1 =>
         /\ scanOffset' = (scanOffset + SCAN_SPEED_PX_PER_FRAME) % frame'.plotW
         /\ \A u \in DOMAIN pointsPerUser :
               Len(pointsPerUser[u]) = frame'.plotW =>
                   /\ Len(pointsPerUser'[u]) = frame'.plotW
                   /\ SubSeq(pointsPerUser'[u], 1, frame'.plotW - 1) = Tail(pointsPerUser[u])]_vars

(***************************************************************************)
(* Properties of the signal                                                *)
(***************************************************************************)
\* C14: setDatasets stores an empty series for an entry whose data is missing or no
\* array, and every sample appended for a user with an empty series equals the
\* track's midline exactly
C14_MalformedFlat ==
    /\ [](\A i \in 1..Len(frame.fills) :
             frame.fills[i].series = <<>> =>
                 frame.fills[i].sample = R(frame.fills[i].trackMid))
    /\ [][\A nd \in DatasetPool \cup SignalPool :
             SetDatasets(nd) =>
                 \A i \in 1..Len(nd) : ~nd[i].isArray => datasets'[i].data = <<>>]_vars

C14_MalformedDrawn ==
    /\ Len(frame.fills) = 2
    /\ frame.fills[2].user = "b" /\ frame.fills[2].series = <<>>
    /\ InQRS(frame.tick, R(SPEED_BASE), QRS_WIDTH)
    /\ frame.fills[2].sample = R(frame.fills[2].trackMid)

\* C15: on the same dataset and surface size the batch script steps through the states
\* of the interactive host: after n frames its tick and its beam offset are the ones
\* the interactive host has after n frames
C15_SameStateSequence ==
    (env = "script" /\ renderers # <<>>) =>
        /\ renderers[1].xTick = TickAfter(nRender)
        /\ renderers[1].scanOffset = (nRender * SCAN_SPEED_PX_PER_FRAME) % frame.plotW

\* the value of a frame's track is the signal at the frame's tick whatever the draw
C16_Fixed(f, t, p) ==
    InQRS(t, p.speed, QRS_WIDTH) =>
        \A r \in RandPool :
            f.yVal = RMul(heartbeatPattern(t, p.intensity, p.speed, r),
                          ScaleFactor(f.trackH, p.intensity))

\* C16: for a tick inside the spike window heartbeatPattern does not depend on the
\* random source: the value drawn is the one every draw gives
C16_SpikeDeterministic ==
    \A i \in 1..Len(frame.fills) :
        C16_Fixed(frame.fills[i], frame.tick, computeParams(frame.fills[i].series))

C16_SpikeDrawn ==
    \E i \in 1..Len(frame.fills) :
        /\ InQRS(frame.tick, computeParams(frame.fills[i].series).speed, QRS_WIDTH)
        /\ frame.fills[i].series # <<>>
        /\ frame.fills[i].yVal # R(0)

\* outside the spike window of width qw the signal stays within a tenth of the scale
C17_Within(f, t, p, qw) ==
    ~InQRS(t, p.speed, qw) =>
        \A r \in RandPool :
            RLe(RAbs(Heartbeat(t, p.intensity, p.speed, r, qw)),
                RMul(Frac(1, 10), RMul(R(AMP_BASE), p.intensity)))

\* C17: for a tick outside the spike window and any draw of the random source the
\* displacement heartbeatPattern returns is at most 0.1 * AMP_BASE * intensity in
\* magnitude, in chart.js and with the spike width of the batch script, and so is the
\* displacement drawn
C17_NoiseBound ==
    \A i \in 1..Len(frame.fills) :
        /\ C17_Within(frame.fills[i], frame.tick, computeParams(frame.fills[i].series), QRS_WIDTH)
        /\ C17_Within(frame.fills[i], frame.tick, computeParams(frame.fills[i].series),
                      SCRIPT_QRS_WIDTH)
        /\ ~InQRS(frame.tick, computeParams(frame.fills[i].series).speed, QRS_WIDTH) =>
              RLe(RAbs(frame.fills[i].yVal),
                  RMul(Frac(1, 10),
                       RMul(R(AMP_BASE), computeParams(frame.fills[i].series).intensity)))

C17_NoiseDrawn ==
    \E i \in 1..Len(frame.fills) :
        /\ ~InQRS(frame.tick, computeParams(frame.fills[i].series).speed, QRS_WIDTH)
        /\ frame.fills[i].yVal # R(0)

(***************************************************************************)
(* Properties of the render state                                          *)
(***************************************************************************)
\* C21: at the first frame of the interactive host after a resize that changed the
\* surface or after setDatasets, the beam offset the frame reads is 0
C21_ScanZeroAfterReset ==
    [][(env = "browser" /\ nRender' = nRender + 1 /\ resetPending) => scanOffset = 0]_vars

\* C22: in the browser export a callback captures at most one frame, and only when at
\* least 1000/fps ms have passed since the last capture (since the call for the first);
\* every frame of every export is submitted with the delay round(1000/fps); in the
\* headless exports every frame composed is submitted, to exactly one recording
C22_ThrottledCapture ==
    /\ [](\A i \in 1..Len(runs) : \A k \in 1..Len(runs[i].frames) :
             runs[i].frames[k].delay = Round(Frac(1000, runs[i].fps)))
    /\ [][\A i \in 1..Len(runs) :
             runs'[i].captured # runs[i].captured =>
                 /\ runs'[i].captured = runs[i].captured + 1
                 /\ Len(runs'[i].frames) = Len(runs[i].frames) + 1
                 /\ runs[i].kind = "gif" =>
                       /\ RLe(Frac(1000, runs[i].fps), R(now - runs[i].last))
                       /\ runs'[i].last = now]_vars
    /\ [][(env # "browser" /\ nRender' = nRender + 1) =>
             Cardinality({i \in 1..Len(runs) : runs'[i].captured = runs[i].captured + 1}) = 1]_vars

C22_FrameSkipped ==
    \E i \in 1..Len(runs) :
        /\ runs[i].kind = "gif" /\ runs[i].fps = 1
        /\ runs[i].captured = 1 /\ runs[i].last >= 1000
        /\ now > runs[i].last

\* C23: under a host that keeps scheduling, every recording that is capturing
\* eventually ends, as done or as an error
C23_Terminates ==
    \A i \in 1..MaxRuns :
        (Len(runs) >= i /\ runs[i].phase = "capturing")
            ~> (Len(runs) >= i /\ runs[i].phase \in {"done", "error"})

\* under the same host every recording does leave the capturing phase
C23_CapturingEnds ==
    (\E i \in 1..Len(runs) : runs[i].phase = "capturing")
        ~> (\A i \in 1..Len(runs) : runs[i].phase # "capturing")

\* what is stated of the parameters p of a series
C24_ParamsOf(series, p) ==
    /\ p.avg = (IF series = <<>> THEN R(0) ELSE Frac(SumSeq(series), Len(series)))
    /\ p.intensity = RMin(RMul(p.avg, Frac(1, 2)), R(MAX_INTENSITY))
    /\ RLe(R(0), p.intensity) /\ RLe(p.intensity, R(MAX_INTENSITY))
    /\ p.speed = RMax(R(MIN_SPEED), RSub(R(SPEED_BASE), RMul(p.avg, R(SPEED_SLOPE))))
    /\ RLe(R(MIN_SPEED), p.speed)
    /\ p.speed[2] = 1

\* C24: for every series set, computeParams gives the mean as average (0 for the empty
\* series), intensity = min(average * 0.5, MAX_INTENSITY) within [0, MAX_INTENSITY], and
\* a period that is a whole number, at least MIN_SPEED and equal to
\* max(MIN_SPEED, SPEED_BASE - average * SPEED_SLOPE)
C24_ParamsInteger ==
    \A i \in 1..Len(datasets) : C24_ParamsOf(datasets[i].data, computeParams(datasets[i].data))

\* C25: in every frame of every host the overlay has the header row and one row per
\* user whose track is drawn in the frame, in the order of the tracks
C25_OverlayMatchesTracks ==
    frame.host # "none" =>
        /\ Len(frame.rows) = Len(frame.fills) + 1
        /\ \A i \in 1..Len(frame.fills) : frame.rows[i + 1].user = frame.fills[i].user

\* C26: in every frame of every host the plot width is
\* max(MIN_PLOT_W, width - LEFT_PAD - RIGHT_SAFE_PAD) and each glow marker, centred at
\* LEFT_PAD + plotW - 1 with radius GLOW_RADIUS, lies within 0..width
C26_GlowInsideSurface ==
    \A i \in 1..Len(frame.fills) :
        /\ frame.fills[i].plotW = Max(MIN_PLOT_W, frame.width - LEFT_PAD - RIGHT_SAFE_PAD)
        /\ frame.fills[i].glowX = LEFT_PAD + frame.fills[i].plotW - 1
        /\ frame.fills[i].glowX - GLOW_RADIUS >= 0
        /\ frame.fills[i].glowX + GLOW_RADIUS <= frame.width

\* the buffer new is the window of f.plotW samples ending with f's sample over the
\* buffer old, padded on the left with the midline where old is too short
C27_Window(old, new, f) ==
    /\ Len(new) = f.plotW
    /\ new[f.plotW] = f.sample
    /\ \A j \in 1..(f.plotW - 1) :
          new[j] = IF j + 1 + Len(old) - f.plotW >= 1
                   THEN old[j + 1 + Len(old) - f.plotW]
                   ELSE R(f.trackMid)

\* C27: a frame leaves each drawn user's buffer as a FIFO window: ensureFilled pads a
\* shorter buffer on the left with the midline and keeps its samples in order at the
\* right end, keeps the newest plotW samples of a longer one, and the advance appends
\* the new sample at the end and removes the oldest
C27_FifoWindow ==
    [][nRender' = nRender + 1 =>
         \A i \in 1..Len(frame'.fills) :
             C27_Window(IF frame'.fills[i].user \in DOMAIN BuffersOf
                        THEN BuffersOf[frame'.fills[i].user] ELSE <<>>,
                        BuffersOf'[frame'.fills[i].user], frame'.fills[i])]_vars

C27_PaddedAndKept ==
    \E i \in 1..Len(frame.fills) :
        /\ frame.fills[i].before > 0
        /\ frame.fills[i].before < frame.fills[i].plotW
        /\ frame.fills[i].after = frame.fills[i].plotW

\* the render callbacks the display-refresh scheduler holds, pending or in the frame
\* being run
C28_RenderCallbacks ==
    SelectSeq(raf.pending \o raf.running, LAMBDA c : c.fn = "render")

\* C28: in the interactive host at most one render callback is scheduled at any time,
\* and rafId is the id of that callback
C28_OneRenderLoop ==
    env = "browser" =>
        /\ Len(C28_RenderCallbacks) <= 1
        /\ \A k \in 1..Len(C28_RenderCallbacks) : C28_RenderCallbacks[k].id = rafId

C28_LoopRestarted ==
    /\ listeners = 2 * MaxRecInits
    /\ nRender > 0
    /\ Len(C28_RenderCallbacks) = 1
    /\ C28_RenderCallbacks[1].id = rafId

\* C29: in every frame of the interactive host the track bands
\* [TOP_PAD + i * trackH, TOP_PAD + (i + 1) * trackH) of the users follow one another
\* without overlap, and every band and its midline lie within the surface height
C29_BandsInsideSurface ==
    frame.host = "browser" =>
        \A i \in 1..Len(frame.fills) :
            /\ frame.fills[i].trackH > 0
            /\ frame.fills[i].trackH = frame.fills[1].trackH
            /\ frame.fills[i].trackMid =
                   TOP_PAD + (i - 1) * frame.fills[i].trackH + (frame.fills[i].trackH \div 2)
            /\ TOP_PAD + i * frame.fills[i].trackH <= frame.height

(***************************************************************************)
(* Properties of the message dialog                                        *)
(***************************************************************************)
\* C30: every promise showMessage returned is resolved once, by the action that closes
\* its dialog: a promise still pending is the one the resolver is held for, also when
\* showMessage was called again before the dialog was closed; a resolved promise keeps
\* its value, and with no dialog open keys and clicks resolve nothing
C30_ResolvedOnce ==
    /\ [](\A i \in 1..Len(msgBox.promises) :
             msgBox.promises[i] = "pending" => msgBox.resolver = i)
    /\ [][\A i \in 1..Len(msgBox.promises) :
             /\ msgBox.promises[i] # "pending" => msgBox'.promises[i] = msgBox.promises[i]
             /\ msgBox'.promises[i] \in {"pending", "ok", "x", "esc", "overlay"}]_vars
====
